---- MODULE Spec2Model ----
(***************************************************************************)
(* Semantic-map inference (src/code/code.py): bootstrap resampling of the  *)
(* language sample, greedy maximisation of the Angluin et al. connectivity *)
(* objective, aggregation of edge frequencies and the final thresholding.  *)
(*                                                                         *)
(* A graph (networkx.Graph) is a record                                    *)
(*   node : the nodes in insertion order,                                  *)
(*   edge : the edges <<u, v>> in insertion order, as they were added,     *)
(*   attr : per edge, its attributes (<<>> = none, <<n, d>> = weight n/d). *)
(* The adjacency order of a node in networkx is the insertion order of the *)
(* edges at that node, so this record determines G.nodes() and G.edges().  *)
(***************************************************************************)
EXTENDS Integers, Sequences, FiniteSets, TLC

(* ------------------------------ bounds -------------------------------- *)
\* how many of the 12 languages of line 22 the model keeps
NumLanguages == 2
\* how many of the 12 reference concepts of line 23 the model keeps
NumNodes == 3
\* k of random.choices (12 in the source)
SampleSize == 2
\* range(1000) of the bootstrap loop
NumIterations == 2
\* lines of the isolectic set file
MaxLines == 2
\* senses in one line's brace list, for the lists taken in every order and
\* with repeats (Triples adds the lists of three)
MaxSenses == 2
\* edge lists handed to the aggregator concurrently, and their length
NumWorkers == 2
MaxEdges == 2

(* ------------------------- program constants -------------------------- *)
KeepThreshold == 250
ImportanceThreshold == 500
NormalizingConstant == 200

AllLanguages ==
  << "Rapanui", "Lezgian", "Sherbro", "Nuer", "Palula", "Mauwake", "Mawng",
     "Yir-Yoront", "Cusco Quechua", "Paraguayan Guarani", "Lakota",
     "Passamaquoddy-melecite" >>
AllNodes ==
  << "LOVE", "HAPPYNESS", "ANGER", "MISSING", "FEAR", "WORRY", "SHAME",
     "SURPRISE", "TRUST", "RESPECT", "SADNESS", "PITY" >>

Min(a, b) == IF a < b THEN a ELSE b
languages == SubSeq(AllLanguages, 1, Min(NumLanguages, Len(AllLanguages)))
nodes == SubSeq(AllNodes, 1, Min(NumNodes, Len(AllNodes)))

\* a sense label of the input file that is not one of the reference concepts
OtherLabel == "JOY"

Range(s) == { s[k] : k \in DOMAIN s }
Labels == Range(nodes) \cup {OtherLabel}

(* ------------------------------ helpers ------------------------------- *)
\* seq.count(x)
Count(seq, x) == Cardinality({ k \in DOMAIN seq : seq[k] = x })

\* x in seq
In(x, seq) == \E k \in DOMAIN seq : seq[k] = x

\* seq.remove(x) forgotten: the list as it was
Remove_Keeps(seq, x) == seq

\* seq.pop(0) for seq.remove(x): drops the first item, whatever it is
Remove_First(seq, x) == Tail(seq)

\* seq.remove(x): drops the first occurrence
Remove(seq, x) ==
  LET k == CHOOSE j \in DOMAIN seq : seq[j] = x /\ \A h \in 1..(j - 1) : seq[h] # x
  IN  SubSeq(seq, 1, k - 1) \o SubSeq(seq, k + 1, Len(seq))

\* edge[::-1]
Reversed(e) == << e[2], e[1] >>

\* every ordering of a list: the outcomes of random.shuffle
Orderings(seq) ==
  { [k \in DOMAIN seq |-> seq[p[k]]] :
      p \in { q \in [DOMAIN seq -> DOMAIN seq] :
                \A a, b \in DOMAIN seq : a # b => q[a] # q[b] } }

(* ------------------------------ allpairs ------------------------------ *)
RECURSIVE allpairsFrom(_, _, _)
allpairsFrom(seq, a, b) ==
  IF a > Len(seq) THEN << >>
  ELSE IF b > Len(seq) THEN allpairsFrom(seq, a + 1, a + 2)
  ELSE << << seq[a], seq[b] >> >> \o allpairsFrom(seq, a, b + 1)

\* allpairs with range(i, l) for range(i+1, l): an item is paired with itself
RECURSIVE allpairsFromSelf(_, _, _)
allpairsFromSelf(seq, a, b) ==
  IF a > Len(seq) THEN << >>
  ELSE IF b > Len(seq) THEN allpairsFromSelf(seq, a + 1, a + 1)
  ELSE << << seq[a], seq[b] >> >> \o allpairsFromSelf(seq, a, b + 1)

allpairs_WithSelf(seq) == allpairsFromSelf(seq, 1, 1)

allpairs(seq) == allpairsFrom(seq, 1, 2)

(* --------------------------- networkx.Graph --------------------------- *)
Graph == [node |-> << >>, edge |-> << >>, attr |-> << >>]

has_node(g, n) == In(n, g.node)

add_node(g, n) == IF has_node(g, n) THEN g ELSE [g EXCEPT !.node = Append(@, n)]

SameEdge(e, u, v) == (e[1] = u /\ e[2] = v) \/ (e[1] = v /\ e[2] = u)

has_edge(g, u, v) == \E k \in DOMAIN g.edge : SameEdge(g.edge[k], u, v)

\* add_edge that starts the edges afresh: the edges there were are lost
add_edge_Alone(g, u, v, a) ==
  LET h == add_node(add_node(g, u), v)
  IN  [h EXCEPT !.edge = << << u, v >> >>, !.attr = << a >>]

\* add_edge(u, v, **attr): missing end points become nodes, u first; an edge
\* already present keeps its place and has its attributes updated
add_edge(g, u, v, a) ==
  LET h == add_node(add_node(g, u), v)
  IN  IF has_edge(h, u, v)
      THEN IF a = << >> THEN h
           ELSE [h EXCEPT !.attr =
                   [k \in DOMAIN h.attr |->
                      IF SameEdge(h.edge[k], u, v) THEN a ELSE h.attr[k]]]
      ELSE [h EXCEPT !.edge = Append(@, << u, v >>), !.attr = Append(@, a)]

\* remove_edge(u, v) left out: the graph as it was
remove_edge_Skipped(g, u, v) == g

\* remove_edge(u, v): the nodes stay
remove_edge(g, u, v) ==
  LET keep == { k \in DOMAIN g.edge : ~SameEdge(g.edge[k], u, v) }
      F[k \in 0..Len(g.edge)] ==
        IF k = 0 THEN << >>
        ELSE IF k \in keep THEN Append(F[k - 1], k) ELSE F[k - 1]
      ks == F[Len(g.edge)]
  IN  [g EXCEPT !.edge = [j \in DOMAIN ks |-> g.edge[ks[j]]],
                !.attr = [j \in DOMAIN ks |-> g.attr[ks[j]]]]

\* G.subgraph(c): the nodes of g that are in c, and the edges of g among them
subgraph(g, c) ==
  LET inC(n) == In(n, c)
      keep == { k \in DOMAIN g.edge : inC(g.edge[k][1]) /\ inC(g.edge[k][2]) }
      F[k \in 0..Len(g.edge)] ==
        IF k = 0 THEN << >>
        ELSE IF k \in keep THEN Append(F[k - 1], k) ELSE F[k - 1]
      ks == F[Len(g.edge)]
  IN  [node |-> SelectSeq(g.node, inC),
       edge |-> [j \in DOMAIN ks |-> g.edge[ks[j]]],
       attr |-> [j \in DOMAIN ks |-> g.attr[ks[j]]]]

\* the nodes reachable from the set s
RECURSIVE Reachable(_, _)
Reachable(g, s) ==
  LET next == s \cup { n \in Range(g.node) :
                         \E m \in s : has_edge(g, m, n) }
  IN  IF next = s THEN s ELSE Reachable(g, next)

RECURSIVE CountComponents(_, _)
CountComponents(g, rest) ==
  IF rest = {} THEN 0
  ELSE LET n == CHOOSE x \in rest : TRUE
       IN  1 + CountComponents(g, rest \ Reachable(g, {n}))

\* nx.number_connected_components: 0 for the graph without nodes
number_connected_components(g) == CountComponents(g, Range(g.node))

\* G.edges() without the filter on nodes already seen: an edge is listed from
\* both of its ends
edges_BothEnds(g) ==
  LET F[k \in 0..Len(g.node)] ==
        IF k = 0 THEN << >>
        ELSE LET n == g.node[k]
                 other(ed) == IF ed[1] = n THEN ed[2] ELSE ed[1]
                 mine(ed) == ed[1] = n \/ ed[2] = n
                 es == SelectSeq(g.edge, mine)
             IN  F[k - 1] \o [j \in DOMAIN es |-> << n, other(es[j]) >>]
  IN  F[Len(g.node)]

\* list(G.edges()): node by node in node order, each node's edges in the
\* order they were added, an edge to an earlier node left out
edges(g) ==
  LET F[k \in 0..Len(g.node)] ==
        IF k = 0 THEN << >>
        ELSE LET n == g.node[k]
                 seen == { g.node[h] : h \in 1..(k - 1) }
                 other(e) == IF e[1] = n THEN e[2] ELSE e[1]
                 mine(e) == (e[1] = n \/ e[2] = n) /\ other(e) \notin seen
                 es == SelectSeq(g.edge, mine)
             IN  F[k - 1] \o [j \in DOMAIN es |-> << n, other(es[j]) >>]
  IN  F[Len(g.node)]

(* ------------------------ connectedness function ---------------------- *)
\* C with the components of the whole graph counted for every constraint:
\* number_connected_components(G) for number_connected_components(G.subgraph(c))
RECURSIVE CFrom_WholeGraph(_, _, _)
CFrom_WholeGraph(g, s, k) ==
  IF k > Len(s) THEN 0
  ELSE (1 - number_connected_components(g)) + CFrom_WholeGraph(g, s, k + 1)

\* C(g, s), lines 37-43. The source reads the module's graph G in place of
\* its parameter g; every call passes G, so g is that graph.
RECURSIVE CFrom(_, _, _)
CFrom(g, s, k) ==
  IF k > Len(s) THEN 0
  ELSE (1 - number_connected_components(subgraph(g, s[k]))) + CFrom(g, s, k + 1)

\* C with the first constraint left out of the sum
C_SkipsFirst(g, s) == CFrom(g, s, 2)

\* C with the sign of each term turned: total += (ncc - 1)
C_SignTurned(g, s) == 0 - CFrom(g, s, 1)

C(g, s) == CFrom(g, s, 1)

(* ------------------------------- state -------------------------------- *)
VARIABLES
  pc,                \* the statement about to run
  corpus,            \* the input file: its lines as <<language, senses>>
  i,                 \* bootstrap iterations completed
  L,                 \* the languages drawn for this iteration
  T,                 \* the senses of each included term
  G,                 \* the graph
  PossE,             \* the possible edges not yet in the graph
  objfn,             \* C(G, T) as of the last assignment
  max_score,
  max_edge,          \* << >> while the name is unbound
  score,
  e,                 \* position of the for loop of line 125 in PossE
  edges_dictionary,  \* canonical pair -> number of iterations with that edge
  important_links,
  edge_lists,        \* concurrent aggregation: the edge list of each worker
  pending,           \* concurrent aggregation: what each worker has left
  argv,              \* sys.argv; corpus is the file that argv names second
  usage              \* the usage line of line 68 was printed

vars == << pc, corpus, i, L, T, G, PossE, objfn, max_score, max_edge, score,
           e, edges_dictionary, important_links, edge_lists, pending, argv,
           usage >>

Unbound == << >>

\* sys.argv of a start with the input file as its one argument
ProgramName == "code.py"
InputFile == "isolectic_sets.txt"
OneArgument == << ProgramName, InputFile >>

\* line 73: one entry, 0, per pair of allpairs(nodes)
Keys == allpairs(nodes)
InitialDictionary == [key \in Range(Keys) |-> 0]

(* ------------------------------- inputs ------------------------------- *)
\* fields[2][1:-1].split(", ") yields at least one sense
LabelSeq == nodes \o << OtherLabel >>
\* the lists of three different senses, in one order each
Triples ==
  { << LabelSeq[p[1]], LabelSeq[p[2]], LabelSeq[p[3]] >> :
      p \in { q \in (DOMAIN LabelSeq) \X (DOMAIN LabelSeq) \X (DOMAIN LabelSeq) :
                q[1] < q[2] /\ q[2] < q[3] } }
SenseLists == (UNION { [1..n -> Labels] : n \in 1..MaxSenses }) \cup Triples
Lines == Range(languages) \X SenseLists
\* random.choices(languages, k)
Draws == [1..SampleSize -> Range(languages)]

(* -------------------- READ IN DATA, lines 87-95 ----------------------- *)
\* the reading with "if num_L > 0" for the loop over range(num_L): a line's
\* senses once when its language is in the draw
RECURSIVE ReadFrom_Once(_, _, _)
ReadFrom_Once(file, draw, k) ==
  IF k > Len(file) THEN << >>
  ELSE LET num_L == Count(draw, file[k][1])
       IN  (IF num_L > 0 THEN << file[k][2] >> ELSE << >>)
             \o ReadFrom_Once(file, draw, k + 1)

\* a line's senses once per occurrence of its language in the draw
RECURSIVE ReadFrom(_, _, _)
ReadFrom(file, draw, k) ==
  IF k > Len(file) THEN << >>
  ELSE LET num_L == Count(draw, file[k][1])
       IN  [j \in 1..num_L |-> file[k][2]] \o ReadFrom(file, draw, k + 1)

ReadData(file, draw) == ReadFrom(file, draw, 1)

(* ------------------ CREATE INITIAL GRAPH, lines 101-114 --------------- *)
RECURSIVE AddNodes(_, _, _)
AddNodes(g, t, k) ==
  IF k > Len(t) THEN g ELSE AddNodes(add_node(g, t[k]), t, k + 1)

\* the test of line 112 without its second half: a pair is looked for as
\* (u, v) only
RECURSIVE AddPairs_SameWay(_, _, _)
AddPairs_SameWay(poss, pairs, k) ==
  IF k > Len(pairs) THEN poss
  ELSE LET u == pairs[k][1]
           v == pairs[k][2]
       IN  IF ~In(<< u, v >>, poss)
           THEN AddPairs_SameWay(Append(poss, << u, v >>), pairs, k + 1)
           ELSE AddPairs_SameWay(poss, pairs, k + 1)

RECURSIVE AddPairs(_, _, _)
AddPairs(poss, pairs, k) ==
  IF k > Len(pairs) THEN poss
  ELSE LET u == pairs[k][1]
           v == pairs[k][2]
       IN  IF ~(In(<< u, v >>, poss) \/ In(<< v, u >>, poss))
           THEN AddPairs(Append(poss, << u, v >>), pairs, k + 1)
           ELSE AddPairs(poss, pairs, k + 1)

RECURSIVE InitialNodes(_, _, _)
InitialNodes(g, ts, k) ==
  IF k > Len(ts) THEN g ELSE InitialNodes(AddNodes(g, ts[k], 1), ts, k + 1)

\* the loop of line 103 stopped after its first term: the pairs of the other
\* terms are not possible edges
InitialPossE_FirstTerm(poss, ts, k) ==
  IF ts = << >> THEN poss ELSE AddPairs(poss, allpairs(ts[1]), 1)

RECURSIVE InitialPossE(_, _, _)
InitialPossE(poss, ts, k) ==
  IF k > Len(ts) THEN poss
  ELSE InitialPossE(AddPairs(poss, allpairs(ts[k]), 1), ts, k + 1)

(* ------------------------ adding edges, lines 139-143 ----------------- *)
\* the loop body with = 1 for += 1 in the else branch
CountEdge_Assigns(d, edge) ==
  IF edge \in DOMAIN d.table
  THEN [d EXCEPT !.table[edge] = @ + 1]
  ELSE IF Reversed(edge) \in DOMAIN d.table
       THEN [d EXCEPT !.table[Reversed(edge)] = 1]
       ELSE [d EXCEPT !.ok = FALSE]

\* one pass of the loop body; ok = FALSE is the KeyError of line 143
CountEdge(d, edge) ==
  IF edge \in DOMAIN d.table
  THEN [d EXCEPT !.table[edge] = @ + 1]
  ELSE IF Reversed(edge) \in DOMAIN d.table
       THEN [d EXCEPT !.table[Reversed(edge)] = @ + 1]
       ELSE [d EXCEPT !.ok = FALSE]

RECURSIVE CountEdges(_, _, _)
CountEdges(d, es, k) ==
  IF k > Len(es) \/ ~d.ok THEN d ELSE CountEdges(CountEdge(d, es[k]), es, k + 1)

(* ------------------- FINAL GRAPH CREATION, lines 148-157 -------------- *)
\* the thresholding with <= for < in line 152
RECURSIVE FinalFrom_Strict(_, _, _)
FinalFrom_Strict(r, table, k) ==
  IF k > Len(Keys) THEN r
  ELSE LET key == Keys[k]
       IN  IF table[key] <= KeepThreshold THEN FinalFrom_Strict(r, table, k + 1)
           ELSE FinalFrom_Strict(
                  [graph |-> add_edge(r.graph, key[1], key[2],
                                      << table[key], NormalizingConstant >>),
                   important |->
                     IF table[key] > ImportanceThreshold
                     THEN Append(r.important, key) ELSE r.important],
                  table, k + 1)

RECURSIVE FinalFrom(_, _, _)
FinalFrom(r, table, k) ==
  IF k > Len(Keys) THEN r
  ELSE LET key == Keys[k]
       IN  IF table[key] < KeepThreshold THEN FinalFrom(r, table, k + 1)
           ELSE FinalFrom(
                  [graph |-> add_edge(r.graph, key[1], key[2],
                                      << table[key], NormalizingConstant >>),
                   important |->
                     IF table[key] > ImportanceThreshold
                     THEN Append(r.important, key) ELSE r.important],
                  table, k + 1)

FinalGraph(table) ==
  FinalFrom([graph |-> AddNodes(Graph, nodes, 1), important |-> << >>], table, 1)

(* ------------------------------ the program --------------------------- *)
Init ==
  /\ pc = "bootstrap"
  /\ argv = OneArgument
  /\ usage = FALSE
  /\ \E n \in 0..MaxLines : corpus \in [1..n -> Lines]
  /\ i = 0
  /\ L = << >>
  /\ T = << >>
  /\ G = Graph
  /\ PossE = << >>
  /\ objfn = 0
  /\ max_score = 0
  /\ max_edge = Unbound
  /\ score = 0
  /\ e = 0
  /\ edges_dictionary = InitialDictionary
  /\ important_links = << >>
  /\ edge_lists = << >>
  /\ pending = << >>

\* lines 77-95: the next draw and the terms it includes; open(sys.argv[1]) of
\* line 87 is an IndexError when there is no argument
Resample ==
  /\ pc = "bootstrap"
  /\ i < NumIterations
  /\ \E draw \in Draws :
       /\ L' = draw
       /\ IF Len(argv) >= 2
          THEN T' = ReadData(corpus, draw) /\ pc' = "create"
          ELSE T' = << >> /\ pc' = "IndexError"
  /\ UNCHANGED << corpus, i, G, PossE, objfn, max_score, max_edge, score, e,
                  edges_dictionary, important_links, edge_lists, pending,
                  argv, usage >>

\* lines 101-120: the graph without edges, the possible edges, the objective
CreateInitialGraph ==
  /\ pc = "create"
  /\ LET g == InitialNodes(Graph, T, 1)
         total == C(g, T)
     IN  /\ G' = g
         /\ PossE' = InitialPossE(<< >>, T, 1)
         /\ objfn' = total
         /\ pc' = IF total < 0 THEN "shuffle" ELSE "adding"
  /\ UNCHANGED << corpus, i, L, T, max_score, max_edge, score, e,
                  edges_dictionary, important_links, edge_lists, pending,
                  argv, usage >>

\* the pass without line 122: max_score stays what the pass before left
Shuffle_KeepsScore ==
  /\ pc = "shuffle"
  /\ max_score' = max_score
  /\ PossE' \in Orderings(PossE)
  /\ e' = 1
  /\ pc' = "for"
  /\ UNCHANGED << corpus, i, L, T, G, objfn, max_edge, score,
                  edges_dictionary, important_links, edge_lists, pending,
                  argv, usage >>

\* lines 122-123
Shuffle ==
  /\ pc = "shuffle"
  /\ max_score' = 0
  /\ PossE' \in Orderings(PossE)
  /\ e' = 1
  /\ pc' = "for"
  /\ UNCHANGED << corpus, i, L, T, G, objfn, max_edge, score,
                  edges_dictionary, important_links, edge_lists, pending,
                  argv, usage >>

\* lines 130-132 without the test: the candidate scored last is kept
Evaluate_KeepsLast ==
  /\ pc = "for"
  /\ e <= Len(PossE)
  /\ LET cand == PossE[e]
         tried == add_edge(G, cand[1], cand[2], << >>)
         gain == C(tried, T) - objfn
     IN  /\ score' = gain
         /\ G' = remove_edge(tried, cand[1], cand[2])
         /\ max_score' = gain
         /\ max_edge' = cand
  /\ e' = e + 1
  /\ UNCHANGED << pc, corpus, i, L, T, PossE, objfn,
                  edges_dictionary, important_links, edge_lists, pending,
                  argv, usage >>

\* the test of line 130 with >= for >: of the candidates with the best
\* score the last one is kept
Evaluate_LaterTie ==
  /\ pc = "for"
  /\ e <= Len(PossE)
  /\ LET cand == PossE[e]
         tried == add_edge(G, cand[1], cand[2], << >>)
         gain == C(tried, T) - objfn
     IN  /\ score' = gain
         /\ G' = remove_edge(tried, cand[1], cand[2])
         /\ IF gain >= max_score
            THEN max_score' = gain /\ max_edge' = cand
            ELSE UNCHANGED << max_score, max_edge >>
  /\ e' = e + 1
  /\ UNCHANGED << pc, corpus, i, L, T, PossE, objfn,
                  edges_dictionary, important_links, edge_lists, pending,
                  argv, usage >>

\* lines 125-132, one candidate
Evaluate ==
  /\ pc = "for"
  /\ e <= Len(PossE)
  /\ LET cand == PossE[e]
         tried == add_edge(G, cand[1], cand[2], << >>)
         gain == C(tried, T) - objfn
     IN  /\ score' = gain
         /\ G' = remove_edge(tried, cand[1], cand[2])
         /\ IF gain > max_score
            THEN max_score' = gain /\ max_edge' = cand
            ELSE UNCHANGED << max_score, max_edge >>
  /\ e' = e + 1
  /\ UNCHANGED << pc, corpus, i, L, T, PossE, objfn,
                  edges_dictionary, important_links, edge_lists, pending,
                  argv, usage >>

\* lines 133-136 and the loop test of line 120
Commit ==
  /\ pc = "for"
  /\ e > Len(PossE)
  /\ IF max_edge = Unbound
     THEN /\ pc' = "NameError"
          /\ UNCHANGED << G, PossE, objfn >>
     ELSE LET added == add_edge(G, max_edge[1], max_edge[2], << >>)
              total == C(added, T)
          IN  /\ G' = added
              /\ IF ~In(max_edge, PossE)
                 THEN /\ pc' = "ValueError"
                      /\ UNCHANGED << PossE, objfn >>
                 ELSE /\ PossE' = Remove(PossE, max_edge)
                      /\ objfn' = total
                      /\ pc' = IF total < 0 THEN "shuffle" ELSE "adding"
  /\ UNCHANGED << corpus, i, L, T, max_score, max_edge, score, e,
                  edges_dictionary, important_links, edge_lists, pending,
                  argv, usage >>

\* lines 139-143, the whole loop
AddingEdges ==
  /\ pc = "adding"
  /\ LET d == CountEdges([table |-> edges_dictionary, ok |-> TRUE], edges(G), 1)
     IN  /\ edges_dictionary' = d.table
         /\ IF d.ok
            THEN i' = i + 1 /\ pc' = "bootstrap"
            ELSE i' = i /\ pc' = "KeyError"
  /\ UNCHANGED << corpus, L, T, G, PossE, objfn, max_score, max_edge, score,
                  e, important_links, edge_lists, pending, argv, usage >>

\* lines 148-157
FinalGraphCreation ==
  /\ pc = "bootstrap"
  /\ i = NumIterations
  /\ LET r == FinalGraph(edges_dictionary)
     IN  /\ G' = r.graph
         /\ important_links' = r.important
  /\ pc' = "done"
  /\ UNCHANGED << corpus, i, L, T, PossE, objfn, max_score, max_edge, score,
                  e, edges_dictionary, edge_lists, pending, argv, usage >>

Next ==
  \/ Resample
  \/ CreateInitialGraph
  \/ Shuffle
  \/ Evaluate
  \/ Commit
  \/ AddingEdges
  \/ FinalGraphCreation

Spec == Init /\ [][Next]_vars

(* ------------------- the start with its arguments --------------------- *)
\* sys.argv of a start with no argument, with one, and with two
OtherFile == "other.txt"
ArgumentLists ==
  { << ProgramName >>, OneArgument, << ProgramName, InputFile, OtherFile >> }

InitArgs ==
  /\ pc = "parse"
  /\ argv \in ArgumentLists
  /\ usage = FALSE
  /\ \E n \in 0..1 : corpus \in [1..n -> Lines]
  /\ i = 0
  /\ L = << >>
  /\ T = << >>
  /\ G = Graph
  /\ PossE = << >>
  /\ objfn = 0
  /\ max_score = 0
  /\ max_edge = Unbound
  /\ score = 0
  /\ e = 0
  /\ edges_dictionary = InitialDictionary
  /\ important_links = << >>
  /\ edge_lists = << >>
  /\ pending = << >>

\* lines 65-68: with len(sys.argv) other than 2 the usage line is printed, and
\* the program goes on to line 71 either way
ParseArguments ==
  /\ pc = "parse"
  /\ usage' = (Len(argv) # 2)
  /\ pc' = "bootstrap"
  /\ UNCHANGED << corpus, i, L, T, G, PossE, objfn, max_score, max_edge, score,
                  e, edges_dictionary, important_links, edge_lists, pending,
                  argv >>

NextArgs ==
  \/ ParseArguments
  \/ Next

SpecArgs == InitArgs /\ [][NextArgs]_vars

(* ------------------- the connectedness function alone ----------------- *)
\* constraint sets for C: the lists of senses that line 94 can yield, which
\* have at least one sense
ConstraintLists == UNION { [1..n -> Labels] : n \in 1..(MaxSenses + 1) }

\* the graphs on the nodes of ts: every set of edges between different nodes
GraphsOn(ts) ==
  LET g0 == InitialNodes(Graph, ts, 1)
      pairs == allpairs(g0.node)
  IN  { LET es == SelectSeq(pairs, LAMBDA p : p \in chosen)
        IN  [g0 EXCEPT !.edge = es, !.attr = [k \in DOMAIN es |-> << >>]] :
        chosen \in SUBSET Range(pairs) }

InitC ==
  /\ pc = "C"
  /\ argv = OneArgument
  /\ usage = FALSE
  /\ \E n \in 1..MaxLines : T \in [1..n -> ConstraintLists]
  /\ G \in GraphsOn(T)
  /\ corpus = << >>
  /\ i = 0
  /\ L = << >>
  /\ PossE = << >>
  /\ objfn = 0
  /\ max_score = 0
  /\ max_edge = Unbound
  /\ score = 0
  /\ e = 0
  /\ edges_dictionary = InitialDictionary
  /\ important_links = << >>
  /\ edge_lists = << >>
  /\ pending = << >>

\* objfn = C(G, T), line 119
CallC ==
  /\ pc = "C"
  /\ objfn' = C(G, T)
  /\ pc' = "returned"
  /\ UNCHANGED << corpus, i, L, T, G, PossE, max_score, max_edge, score, e,
                  edges_dictionary, important_links, edge_lists, pending,
                  argv, usage >>

SpecC == InitC /\ [][CallC]_vars

\* the test of line 120 on the objective just computed
LoopTest ==
  /\ pc = "returned"
  /\ pc' = IF objfn < 0 THEN "shuffle" ELSE "adding"
  /\ UNCHANGED << corpus, i, L, T, G, PossE, objfn, max_score, max_edge,
                  score, e, edges_dictionary, important_links, edge_lists,
                  pending, argv, usage >>

NextTest ==
  \/ CallC
  \/ LoopTest

\* lines 119-120 (and 136, 120) on any graph
SpecTest == InitC /\ [][NextTest]_vars

(* ---------------------- the final graph creation alone ---------------- *)
\* frequencies on both sides of the two thresholds
Frequencies ==
  { 0, KeepThreshold - 1, KeepThreshold, KeepThreshold + 1,
    ImportanceThreshold, ImportanceThreshold + 1 }

InitFinal ==
  /\ pc = "bootstrap"
  /\ argv = OneArgument
  /\ usage = FALSE
  /\ i = NumIterations
  /\ edges_dictionary \in [Range(Keys) -> Frequencies]
  /\ corpus = << >>
  /\ L = << >>
  /\ T = << >>
  /\ G = Graph
  /\ PossE = << >>
  /\ objfn = 0
  /\ max_score = 0
  /\ max_edge = Unbound
  /\ score = 0
  /\ e = 0
  /\ important_links = << >>
  /\ edge_lists = << >>
  /\ pending = << >>

SpecFinal == InitFinal /\ [][FinalGraphCreation]_vars

(* -------------- adding edges, several edge lists at a time ------------ *)
\* what list(G.edges()) can be: different edges between different nodes
EdgeLists ==
  { es \in UNION { [1..n -> Labels \X Labels] : n \in 0..MaxEdges } :
      /\ \A k \in DOMAIN es : es[k][1] # es[k][2]
      /\ \A a, b \in DOMAIN es : a # b => ~SameEdge(es[a], es[b][1], es[b][2]) }

InitAdding ==
  /\ pc = "adding"
  /\ argv = OneArgument
  /\ usage = FALSE
  /\ edge_lists \in [1..NumWorkers -> EdgeLists]
  /\ pending = edge_lists
  /\ edges_dictionary = InitialDictionary
  /\ corpus = << >>
  /\ i = 0
  /\ L = << >>
  /\ T = << >>
  /\ G = Graph
  /\ PossE = << >>
  /\ objfn = 0
  /\ max_score = 0
  /\ max_edge = Unbound
  /\ score = 0
  /\ e = 0
  /\ important_links = << >>

\* lines 140-143 for the next edge of one list
AddEdge ==
  /\ pc = "adding"
  /\ \E w \in DOMAIN pending :
       /\ pending[w] # << >>
       /\ LET d == CountEdge([table |-> edges_dictionary, ok |-> TRUE],
                             Head(pending[w]))
          IN  /\ edges_dictionary' = d.table
              /\ pc' = IF d.ok THEN "adding" ELSE "KeyError"
       /\ pending' = [pending EXCEPT ![w] = Tail(@)]
  /\ UNCHANGED << corpus, i, L, T, G, PossE, objfn, max_score, max_edge,
                  score, e, important_links, edge_lists, argv, usage >>

SpecAdding == InitAdding /\ [][AddEdge]_vars

(* ------------------- the creation of the graph alone ------------------ *)
\* what a line's brace list can be read as: senses in any order, repeats
\* included
TermLists == UNION { [1..n -> Labels] : n \in 1..(MaxSenses + 1) }

InitCreate ==
  /\ pc = "create"
  /\ argv = OneArgument
  /\ usage = FALSE
  /\ \E n \in 0..MaxLines : T \in [1..n -> TermLists]
  /\ corpus = << >>
  /\ i = 0
  /\ L = << >>
  /\ G = Graph
  /\ PossE = << >>
  /\ objfn = 0
  /\ max_score = 0
  /\ max_edge = Unbound
  /\ score = 0
  /\ e = 0
  /\ edges_dictionary = InitialDictionary
  /\ important_links = << >>
  /\ edge_lists = << >>
  /\ pending = << >>

SpecCreate == InitCreate /\ [][CreateInitialGraph]_vars

(* ======================================================================= *)
(*                               the claims                                *)
(* ======================================================================= *)
\* the nodes of g among vs that a path inside vs joins to the set s
RECURSIVE ReachableWithin(_, _, _)
ReachableWithin(g, vs, s) ==
  LET next == s \cup { n \in vs : \E m \in s : has_edge(g, m, n) }
  IN  IF next = s THEN s ELSE ReachableWithin(g, vs, next)

\* the senses of c induce exactly one connected component of g
OneComponent(g, c) ==
  LET vs == Range(c) \cap Range(g.node)
  IN  /\ vs # {}
      /\ \A a \in vs : ReachableWithin(g, vs, {a}) = vs

Different(t) == Cardinality(Range(t))

\* C1: when the loop of lines 120-136 has ended (objfn = 0), the senses of
\* every term of T induce exactly one connected component of G, whatever the
\* draw and the shuffles were.
C1_SatisfiedMeansConnected ==
  pc = "adding" => \A k \in DOMAIN T : OneComponent(G, T[k])

\* C1 happens: the loop ended after adding two edges for a term of three senses
C1_Witness ==
  /\ pc = "adding"
  /\ Len(G.edge) >= 2
  /\ \E k \in DOMAIN T : Different(T[k]) = 3

\* C2: for a graph on the senses of a constraint set whose lists are all
\* non-empty, C is at most 0, and it is 0 exactly when every list induces one
\* connected component.
C2_ScoreAtMostZero ==
  (pc = "returned" /\ \A k \in DOMAIN T : T[k] # << >>) =>
    /\ objfn <= 0
    /\ (objfn = 0) <=> (\A k \in DOMAIN T : OneComponent(G, T[k]))

\* C2 happens both ways: a list of three senses joined by two edges scores 0,
\* beside it a returned score below 0
C2_Witness ==
  /\ pc = "returned"
  /\ objfn = 0
  /\ Len(G.edge) = 2
  /\ \E k \in DOMAIN T : Different(T[k]) = 3

\* the terms of ts with two different senses or more
Larger(ts) == SelectSeq(ts, LAMBDA t : Different(t) >= 2)

\* every term of ts has one sense, listed once or several times
AllSmall(ts) == \A k \in DOMAIN ts : Different(ts[k]) <= 1

\* C3: on any graph that has the senses of the terms as nodes, the terms with
\* one sense (listed once or more; a term without a sense is not read from a
\* file) add nothing to the objective: it is what the other terms alone give;
\* when every term is of that kind the objective is 0 and the test of line
\* 120 leaves the loop at once, the graph as it was and no edge added.
C3_SmallListsScoreZero ==
  /\ pc \in {"returned", "shuffle", "adding"} => objfn = C(G, Larger(T))
  /\ (AllSmall(T) /\ pc # "C") => (objfn = 0 /\ pc \in {"returned", "adding"})
  /\ pc = "shuffle" => ~AllSmall(T)

\* C3 happens: two terms of one sense each, the first listing its sense
\* twice, on the graph of their two senses without an edge: the objective is
\* 0 and the loop is not entered
C3_Witness ==
  /\ pc = "adding"
  /\ AllSmall(T)
  /\ Len(T) = 2
  /\ Len(T[1]) = 2
  /\ T[1] # T[2]
  /\ Len(G.node) = 2
  /\ G.edge = << >>
  /\ objfn = 0

\* C5: from the graph without edges and the possible edges built from the
\* terms of the draw, the loop of lines 120-136 ends within as many passes as
\* there were possible edges: no pass fails, every pass runs its for loop over
\* the possible edges once, adds one edge to the graph and takes one possible
\* edge away, and the edges added never outnumber the possible edges there
\* were at the start.
C5_LoopEnds ==
  /\ [](pc \notin {"NameError", "ValueError"})
  /\ [](pc = "for" => e \in 1..(Len(PossE) + 1))
  /\ [](pc \in {"shuffle", "for", "adding"} =>
          Len(G.edge) <= Len(InitialPossE(<< >>, T, 1)))
  /\ [][(pc = "for" /\ e > Len(PossE)) =>
          /\ pc' \in {"shuffle", "adding"}
          /\ Len(G'.edge) = Len(G.edge) + 1
          /\ Len(PossE') = Len(PossE) - 1]_vars

\* C5 happens: a loop that ended after as many passes as there were possible
\* edges, two of them
C5_Witness ==
  /\ pc = "adding"
  /\ Len(G.edge) = 2
  /\ Len(InitialPossE(<< >>, T, 1)) = 2

\* C6: with n iterations aggregated every entry of edges_dictionary is in
\* 0..n, and one iteration's aggregation leaves an entry as it was or one
\* higher (an aggregation cut short by the KeyError has not completed its
\* iteration, and has raised no entry by more than 1 either).
C6_FrequenciesBounded ==
  /\ [](\A key \in DOMAIN edges_dictionary :
          edges_dictionary[key] \in
            0..(IF pc = "KeyError" THEN i + 1 ELSE i))
  /\ [][\A key \in DOMAIN edges_dictionary :
          edges_dictionary'[key] - edges_dictionary[key] \in {0, 1}]_vars

\* C6 happens: after two iterations one entry is 2 and another is below 2
C6_Witness ==
  /\ pc = "bootstrap"
  /\ i = 2
  /\ \E a, b \in DOMAIN edges_dictionary :
       edges_dictionary[a] = 2 /\ edges_dictionary[b] < 2

\* C7: aggregation of an edge that edges_dictionary has in neither orientation
\* never ends in a lookup failure.
C7_NoLookupFailure == pc # "KeyError"

\* C8: the final graph has the edge of a pair exactly when the pair's frequency
\* is at least the keep threshold and has no other edge, and important_links
\* has a pair exactly when its frequency is at least the keep threshold and
\* above the importance threshold.
C8_Thresholds ==
  pc = "done" =>
    /\ \A key \in Range(Keys) :
         /\ has_edge(G, key[1], key[2]) <=>
              edges_dictionary[key] >= KeepThreshold
         /\ In(key, important_links) <=>
              (edges_dictionary[key] >= KeepThreshold
                 /\ edges_dictionary[key] > ImportanceThreshold)
    /\ \A k \in DOMAIN G.edge : G.edge[k] \in Range(Keys)
    /\ \A a, b \in DOMAIN G.edge : a # b => G.edge[a] # G.edge[b]
    /\ \A k \in DOMAIN important_links : important_links[k] \in Range(Keys)

\* C8 happens: frequencies just below, at and above the keep threshold, the
\* first left out, the other two in the graph, the last one important
C8_Witness ==
  /\ pc = "done"
  /\ \E a, b, c \in Range(Keys) :
       /\ edges_dictionary[a] = KeepThreshold - 1 /\ ~has_edge(G, a[1], a[2])
       /\ edges_dictionary[b] = KeepThreshold /\ has_edge(G, b[1], b[2])
       /\ ~In(b, important_links)
       /\ edges_dictionary[c] = ImportanceThreshold + 1
       /\ In(c, important_links)

\* C9: language 1 has the one term {X, Y}, language 2 the one term {Y, Z}, and
\* the draw has each language once.
C9Corpus ==
  << << languages[1], << nodes[1], nodes[2] >> >>,
     << languages[2], << nodes[2], nodes[3] >> >> >>
C9Edges == { << nodes[1], nodes[2] >>, << nodes[2], nodes[3] >> }
C9Scenario ==
  /\ corpus = C9Corpus
  /\ L \in { << languages[1], languages[2] >>, << languages[2], languages[1] >> }
  /\ pc \in {"shuffle", "for", "adding", "NameError", "ValueError"}

\* C9: in that scenario the possible edges are exactly X-Y and Y-Z, the
\* objective starts at -2, every candidate evaluated gains 1, and whatever the
\* shuffles the loop ends with objective 0 and exactly the edges X-Y and Y-Z.
C9_TwoTermsTwoEdges ==
  C9Scenario =>
    /\ pc \notin {"NameError", "ValueError"}
    /\ Range(PossE) \cup Range(G.edge) = C9Edges
    /\ Len(PossE) + Len(G.edge) = 2
    /\ G.edge = << >> => (objfn = -2 /\ Range(PossE) = C9Edges)
    /\ (pc = "for" /\ e > 1) => score = 1
    /\ pc = "adding" => (objfn = 0 /\ Range(G.edge) = C9Edges /\ PossE = << >>)

\* C9 happens: the loop of the scenario has ended, Y-Z added before X-Y
C9_Witness ==
  /\ C9Scenario
  /\ pc = "adding"
  /\ G.edge = << << nodes[2], nodes[3] >>, << nodes[1], nodes[2] >> >>

\* the table after the edge lists are aggregated one after the other
RECURSIVE InTurn(_, _, _)
InTurn(d, lists, w) ==
  IF w > Len(lists) THEN d
  ELSE InTurn(CountEdges(d, lists[w], 1), lists, w + 1)

\* C10: when every edge of every list has been counted, in whatever order the
\* increments of the lists were interleaved, edges_dictionary is the table
\* that aggregating the lists one after the other gives.
C10_OrderIndependent ==
  (pc = "adding" /\ edge_lists # << >>
     /\ \A w \in DOMAIN pending : pending[w] = << >>) =>
    edges_dictionary =
      InTurn([table |-> InitialDictionary, ok |-> TRUE], edge_lists, 1).table

\* C10 happens: two lists of two edges each with a pair in common, in opposite
\* orientations, all counted
C10_Witness ==
  /\ pc = "adding"
  /\ Len(edge_lists) >= 2
  /\ \A w \in DOMAIN pending : pending[w] = << >>
  /\ Len(edge_lists[1]) = 2
  /\ Len(edge_lists[2]) = 2
  /\ \E a \in DOMAIN edge_lists[1], b \in DOMAIN edge_lists[2] :
       edge_lists[1][a] = Reversed(edge_lists[2][b])

\* C11: after the reading of lines 79-95, every list of senses is in T as many
\* times as there are pairs of a file line with these senses and a position of
\* the draw holding that line's language: a line is taken once per occurrence
\* of its language in the draw, not at all when its language was not drawn,
\* and T has nothing else.
C11_OncePerOccurrence ==
  /\ \A s \in Range(T) \cup { corpus[k][2] : k \in DOMAIN corpus } :
       Count(T, s) =
         Cardinality({ p \in (DOMAIN corpus) \X (DOMAIN L) :
                         corpus[p[1]][2] = s /\ L[p[2]] = corpus[p[1]][1] })
  /\ Len(T) =
       Cardinality({ p \in (DOMAIN corpus) \X (DOMAIN L) :
                       L[p[2]] = corpus[p[1]][1] })

\* C11 happens: one language drawn twice and the other not at all, the line
\* of the first read twice and the line of the second left out
C11_Witness ==
  /\ pc = "create"
  /\ Len(corpus) = 2
  /\ corpus[1][1] # corpus[2][1]
  /\ corpus[1][2] # corpus[2][2]
  /\ L = << corpus[1][1], corpus[1][1] >>
  /\ T = << corpus[1][2], corpus[1][2] >>

\* u and v are both senses of one term of ts
TogetherIn(ts, u, v) ==
  \E k \in DOMAIN ts : u \in Range(ts[k]) /\ v \in Range(ts[k])

\* C12: lines 101-114 leave a graph without edges whose nodes are the senses
\* of the terms of T, each once, and possible edges that hold two different
\* senses as a pair, one way round or the other, exactly when one term has
\* both; no pair is there twice, the same way round or reversed. (A sense
\* paired with itself is there exactly when one term lists it twice.)
C12_PoolOfCooccurring ==
  pc \in {"shuffle", "adding"} =>
    /\ G.edge = << >>
    /\ Range(G.node) = UNION { Range(T[k]) : k \in DOMAIN T }
    /\ Cardinality(Range(G.node)) = Len(G.node)
    /\ \A u, v \in Labels :
         u # v =>
           ((In(<< u, v >>, PossE) \/ In(<< v, u >>, PossE))
              <=> TogetherIn(T, u, v))
    /\ \A u \in Labels :
         In(<< u, u >>, PossE) <=> \E k \in DOMAIN T : Count(T[k], u) >= 2
    /\ \A a, b \in DOMAIN PossE :
         a # b => ~SameEdge(PossE[a], PossE[b][1], PossE[b][2])

\* C12 happens: two terms have the same two senses in opposite orders, the
\* second term a third sense; three possible edges
C12_Witness ==
  /\ pc = "shuffle"
  /\ Len(T) = 2
  /\ Len(T[1]) = 2
  /\ Len(T[2]) = 3
  /\ T[1][1] # T[1][2]
  /\ T[2][1] = T[1][2]
  /\ T[2][2] = T[1][1]
  /\ T[2][3] \notin Range(T[1])
  /\ Len(PossE) = 3

\* C13: a start without exactly one argument prints the usage line and stops
\* there: it draws no sample, reads no file and starts no iteration.
C13_UsageAndStop ==
  (Len(argv) # 2 /\ pc # "parse") =>
    /\ usage
    /\ pc = "bootstrap"
    /\ i = 0
    /\ L = << >>
    /\ T = << >>

\* what adding the possible edge cand to G gains on the objective
Gain(cand) == C(add_edge(G, cand[1], cand[2], << >>), T) - objfn

\* the for loop of line 125 has gone through the possible edges
LoopDone == pc = "for" /\ e > Len(PossE)

\* C14: when the for loop has gone through the possible edges, the edge about
\* to be added is one of them, its gain is above 0 and no possible edge gains
\* more, and of the possible edges with that gain it is the first in the
\* order of this pass's shuffle.
C14_FirstOfTheBest ==
  LoopDone =>
    /\ max_edge # Unbound
    /\ max_score > 0
    /\ \A k \in DOMAIN PossE : Gain(PossE[k]) <= max_score
    /\ \E k \in DOMAIN PossE :
         /\ PossE[k] = max_edge
         /\ Gain(PossE[k]) = max_score
         /\ \A h \in 1..(k - 1) : Gain(PossE[h]) < max_score

\* C14 happens: the first possible edge of the pass gains less than the best,
\* the edge kept comes after it, and a later one gains as much as the edge kept
C14_Witness ==
  /\ LoopDone
  /\ max_edge # Unbound
  /\ \E k, h \in DOMAIN PossE :
       /\ 1 < k
       /\ k < h
       /\ PossE[k] = max_edge
       /\ Gain(PossE[1]) < max_score
       /\ Gain(PossE[h]) = max_score

\* C15: the scoring of one possible edge (lines 126-132) leaves G as it was,
\* nodes and edges, and leaves T, objfn and the possible edges as they were,
\* so every possible edge of a pass is scored on the same graph against the
\* same objective: the score recorded is the gain on the graph of the pass.
C15_ScoringLeavesGraph ==
  [][(pc = "for" /\ e <= Len(PossE)) =>
       /\ G' = G
       /\ T' = T
       /\ objfn' = objfn
       /\ PossE' = PossE
       /\ score' = Gain(PossE[e])]_vars

\* C15 happens: in a pass on a graph with one edge already, two possible
\* edges have been scored and the graph still has just that edge
C15_Witness ==
  /\ pc = "for"
  /\ e = 3
  /\ Len(PossE) >= 2
  /\ Len(G.edge) = 1
  /\ score >= 1

\* one step inside the loop of lines 120-136, as C16 has it
C16Step ==
  pc \in {"shuffle", "for"} =>
    /\ \A k \in DOMAIN G.edge : has_edge(G', G.edge[k][1], G.edge[k][2])
    /\ \A k \in DOMAIN PossE' :
         \E h \in DOMAIN PossE : SameEdge(PossE[h], PossE'[k][1], PossE'[k][2])
    /\ LoopDone =>
         \E m \in Range(PossE) :
           /\ G'.edge = Append(G.edge, m)
           /\ Len(PossE') = Len(PossE) - 1
           /\ Range(PossE') = Range(PossE) \ {m}
           /\ \A k \in DOMAIN PossE' : ~SameEdge(PossE'[k], m[1], m[2])
    /\ ~LoopDone => (Len(G'.edge) = Len(G.edge) /\ Len(PossE') = Len(PossE))

\* C16: inside the loop of lines 120-136 no step takes an edge out of G and
\* no step puts a pair into the possible edges; the step that ends a pass
\* appends exactly one edge, a possible edge, to G and takes exactly that
\* pair out of the possible edges, in both orientations; so a pair taken out
\* is not a possible edge again in that iteration.
C16_EdgesStayPairsGo == [][C16Step]_vars

\* C16 happens: two passes of one iteration have ended, two edges in the
\* graph, three possible edges left of five
C16_Witness ==
  /\ pc = "shuffle"
  /\ Len(G.edge) = 2
  /\ Len(PossE) = 3
  /\ Len(InitialPossE(<< >>, T, 1)) = 5

\* es is an edge list that the greedy search can end with on the terms ts
\* when it starts from the graph without edges and the possible edges of ts
\* and knows of nothing else: each edge of es in turn is, on the graph of the
\* edges before it, a possible edge not yet added of the highest gain, which
\* is above 0, and the objective is 0 after the last edge and not before
GreedyRun(es, ts) ==
  LET g0 == InitialNodes(Graph, ts, 1)
      pool0 == Range(InitialPossE(<< >>, ts, 1))
      upto(j) == [g0 EXCEPT !.edge = SubSeq(es, 1, j),
                            !.attr = [k \in 1..j |-> << >>]]
  IN  /\ C(upto(Len(es)), ts) = 0
      /\ \A j \in DOMAIN es :
           LET g == upto(j - 1)
               obj == C(g, ts)
               pool == pool0 \ { es[k] : k \in 1..(j - 1) }
               gain == [c \in pool |->
                          C(add_edge(g, c[1], c[2], << >>), ts) - obj]
           IN  /\ obj < 0
               /\ es[j] \in pool
               /\ gain[es[j]] > 0
               /\ \A d \in pool : gain[d] <= gain[es[j]]

\* the first of the possible edges, in their present order, that gains the
\* most on the objective of the present graph
FirstBest ==
  LET obj == C(G, T)
      gain == [k \in DOMAIN PossE |->
                 C(add_edge(G, PossE[k][1], PossE[k][2], << >>), T) - obj]
  IN  PossE[CHOOSE k \in DOMAIN PossE :
              /\ \A h \in DOMAIN PossE : gain[h] <= gain[k]
              /\ \A h \in 1..(k - 1) : gain[h] < gain[k]]

\* a step as C17 has it: what it does to G and objfn follows from T, G and
\* the order of the possible edges alone
C17Step ==
  /\ pc = "create" =>
       /\ G'.edge = << >>
       /\ Range(G'.node) = UNION { Range(T[k]) : k \in DOMAIN T }
       /\ objfn' = C(G', T)
       /\ \A k \in DOMAIN PossE' : TogetherIn(T, PossE'[k][1], PossE'[k][2])
  /\ LoopDone =>
       /\ PossE # << >>
       /\ G'.edge = Append(G.edge, FirstBest)
       /\ objfn' = C(G', T)

\* C17: the edges an iteration ends with are an outcome of the greedy search
\* run on this iteration's terms from nothing, and every step of an iteration
\* is settled by this iteration's terms, graph and shuffle: the graph, the
\* possible edges and the objective are made anew from T, and the edge a pass
\* adds is the first best of this pass, whatever max_edge, max_score, score
\* and e were left as by an earlier pass or iteration.
C17_IterationsStandAlone ==
  /\ [](pc = "adding" => GreedyRun(G.edge, T))
  /\ [][C17Step]_vars

\* C17 happens: the second iteration has ended with an edge, without an edge
\* that the first iteration had added, max_edge left over from the first
C17_Witness ==
  /\ pc = "adding"
  /\ i = 1
  /\ Len(G.edge) >= 1
  /\ \E key \in DOMAIN edges_dictionary :
       edges_dictionary[key] = 1 /\ ~has_edge(G, key[1], key[2])

\* C18: wherever the search stands with its objective below 0 there are
\* possible edges left and one of them gains at least 1; so the end of a pass
\* always has a best edge of this pass (max_score >= 1) to add, line 134 never
\* reads max_edge unbound or left over, line 135 never fails, and the loop is
\* left with the objective at 0.
C18_AlwaysAnImprovingEdge ==
  /\ (pc \in {"shuffle", "for", "adding"} /\ objfn < 0) =>
       /\ PossE # << >>
       /\ \E k \in DOMAIN PossE : Gain(PossE[k]) >= 1
  /\ LoopDone => (max_score >= 1 /\ Gain(max_edge) = max_score)
  /\ pc \notin {"NameError", "ValueError"}
  /\ pc = "adding" => (objfn = 0 /\ C(G, T) = 0)

\* C18 happens: a third pass of the second iteration is about to start, the
\* objective still below 0, max_edge no possible edge any more
C18_Witness ==
  /\ pc = "shuffle"
  /\ i = 1
  /\ objfn < 0
  /\ Len(G.edge) = 2
  /\ max_edge # Unbound
  /\ ~In(max_edge, PossE)

\* the pairs of a list without their orientation
Unordered(seq) == { { seq[k][1], seq[k][2] } : k \in DOMAIN seq }

\* C19: at the start of every pass, and all through the search, no pair is
\* both an edge of G and a possible edge, whichever way round, and the edges
\* of G with the possible edges are the possible edges that lines 102-114
\* made from T; so every edge of the graph an iteration ends with joins two
\* senses of one term of that iteration.
C19_EdgesAndPoolPartition ==
  pc \in {"shuffle", "for", "adding"} =>
    /\ Unordered(G.edge) \cap Unordered(PossE) = {}
    /\ Unordered(G.edge) \cup Unordered(PossE)
         = Unordered(InitialPossE(<< >>, T, 1))
    /\ Len(G.edge) + Len(PossE) = Len(InitialPossE(<< >>, T, 1))
    /\ \A k \in DOMAIN G.edge : TogetherIn(T, G.edge[k][1], G.edge[k][2])

\* C19 happens: an iteration has ended with two edges, one possible edge
\* left
C19_Witness ==
  /\ pc = "adding"
  /\ Len(G.edge) = 2
  /\ Len(PossE) = 1

\* the objective of T on the nodes of G with the first j edges of G
ObjectiveAfter(j) ==
  C([G EXCEPT !.edge = SubSeq(G.edge, 1, j),
              !.attr = SubSeq(G.attr, 1, j)], T)

\* C20: every edge the search has added raised the objective by at least 1,
\* the objective is never above 0, and so the edges of the graph are never
\* more than the objective has risen from that of the graph without edges:
\* at most as many as that objective is below 0.
C20_EachEdgeRaisesObjective ==
  pc \in {"shuffle", "for", "adding"} =>
    /\ objfn = ObjectiveAfter(Len(G.edge))
    /\ objfn <= 0
    /\ \A j \in DOMAIN G.edge : ObjectiveAfter(j) >= ObjectiveAfter(j - 1) + 1
    /\ Len(G.edge) <= objfn - ObjectiveAfter(0)
    /\ Len(G.edge) <= 0 - ObjectiveAfter(0)

\* C20 happens: an iteration has ended with one edge, which raised the
\* objective from -2 to 0
C20_Witness ==
  /\ pc = "adding"
  /\ Len(G.edge) = 1
  /\ ObjectiveAfter(0) = -2
  /\ objfn = 0

====
